---- MODULE Spec2Model ----
(***************************************************************************)
(* Model of the W-state synthesizer of w_state_synth_pass.py: the circuit  *)
(* builders (create_linear_w_state, create_balanced_w_state,               *)
(* create_improved_balanced_w_state), the reference state                  *)
(* (create_ideal_w_state), the WState gate, the state-vector evolution of  *)
(* the circuits the builders return, and the transpiler pass               *)
(* WStateSynthesizer.run over a circuit graph.                             *)
(*                                                                         *)
(* Qubit indices are 0-based as in the source; sequences are 1-based.      *)
(* A rotation angle theta = 2*asin(sqrt(x)) is carried by the rational     *)
(* x = sn/sd = sin^2(theta/2).  Amplitudes are real numbers enclosed in    *)
(* integer intervals [lo, hi] in units of 1/Scale, with outward rounding,  *)
(* so every statement derived from an enclosure holds of the exact value.  *)
(***************************************************************************)
EXTENDS Integers, Sequences, FiniteSets, TLC

\* ------------------------------------------------------------------ bounds
MaxNeg == 1         \* entry points are called with counts down to -MaxNeg
MaxN == 19          \* largest qubit count passed to a builder
MaxSimN == 5        \* largest qubit count whose state vector is evolved
Scale == 10000      \* amplitudes are enclosed in units of 1/Scale

\* ------------------------------------------------------------------- gates
\* qc.x(q)
XGate(q) == [name |-> "x", qubits |-> <<q>>, sn |-> 0, sd |-> 1]
\* qc.h(q)
HGate(q) == [name |-> "h", qubits |-> <<q>>, sn |-> 0, sd |-> 1]
\* qc.ry(2*asin(sqrt(sn/sd)), q)
RYGate(sn, sd, q) == [name |-> "ry", qubits |-> <<q>>, sn |-> sn, sd |-> sd]
\* qc.cx(c, t)
CXGate(c, t) == [name |-> "cx", qubits |-> <<c, t>>, sn |-> 0, sd |-> 1]

\* a call either raises or returns a value
Raise(exc) ==
    [raised |-> TRUE, exc |-> exc, kind |-> "none", qc |-> <<>>, vec |-> <<>>]
Return(kind, gates, vec) ==
    [raised |-> FALSE, exc |-> "none", kind |-> kind, qc |-> gates, vec |-> vec]

\* --------------------------------------------------- create_linear_w_state
\* linear_pair with the remaining count taken two too small (neither the
\* source nor the target counted)
linear_pair_zero(n, k) == <<RYGate(1, n - k - 2, k), CXGate(k, k + 1)>>

\* linear_pair with the remaining count taken one too small
linear_pair_short(n, k) == <<RYGate(1, n - k - 1, k), CXGate(k, k + 1)>>

\* one iteration of "for k in range(n - 1)": remaining = n - k
linear_pair(n, k) == <<RYGate(1, n - k, k), CXGate(k, k + 1)>>

RECURSIVE linear_loop(_, _, _)
linear_loop(n, k, gates) ==
    IF k < n - 1
    THEN linear_loop(n, k + 1, gates \o linear_pair(n, k))
    ELSE gates

\* linear_gates without the X on qubit 0 in front of the loop
linear_gates_nox(n) ==
    IF n = 1
    THEN <<XGate(0)>>
    ELSE linear_loop(n, 0, <<>>)

\* linear_gates returning the bare circuit for n = 1
linear_gates_bare(n) ==
    IF n = 1
    THEN <<>>
    ELSE linear_loop(n, 0, <<XGate(0)>>)

linear_gates(n) ==
    IF n = 1
    THEN <<XGate(0)>>
    ELSE linear_loop(n, 0, <<XGate(0)>>)

create_linear_w_state(n) ==
    IF n < 1
    THEN Raise("ValueError")
    ELSE Return("circuit", linear_gates(n), <<>>)

\* ---------------------------------------------------- create_ideal_w_state
\* the vector [0.0] * 2**n with amplitude 1/sqrt(n) at the indices 2**i:
\* an entry is the rational sn/sd whose (non-negative) root is the amplitude
\* ideal_vector with the amplitude 1/n in place of 1/sqrt(n)
ideal_vector_unnormalised(n) ==
    [b \in 0..(2^n - 1) |->
        IF \E i \in 0..(n - 1) : b = 2^i
        THEN [sn |-> 1, sd |-> n * n]
        ELSE [sn |-> 0, sd |-> 1]]

ideal_vector(n) ==
    [b \in 0..(2^n - 1) |->
        IF \E i \in 0..(n - 1) : b = 2^i
        THEN [sn |-> 1, sd |-> n]
        ELSE [sn |-> 0, sd |-> 1]]

\* create_ideal_w_state rejecting only negative counts
create_ideal_w_state_neg(n) ==
    IF n < 0
    THEN Raise("ValueError")
    ELSE Return("statevector", <<>>, ideal_vector(n))

create_ideal_w_state(n) ==
    IF n < 1
    THEN Raise("ValueError")
    ELSE Return("statevector", <<>>, ideal_vector(n))

\* -------------------------------------------------- _build_balanced_w_split
\* qubits[lo..hi] of a 1-based sequence (Python qubits[lo-1:hi])
Slice(s, lo, hi) == [j \in 1..(hi - lo + 1) |-> s[lo + j - 1]]

\* "for i, right_qubit in enumerate(right_qubits)" from index i on (0-based i)
RECURSIVE split_right(_, _, _, _)
split_right(ctrl, right_qubits, i, gates) ==
    IF i >= Len(right_qubits)
    THEN gates
    ELSE IF i = 0
         THEN split_right(ctrl, right_qubits, i + 1,
                          Append(gates, CXGate(ctrl, right_qubits[1])))
         ELSE LET remaining_right == Len(right_qubits) - i
              IN IF remaining_right > 1
                 THEN split_right(ctrl, right_qubits, i + 1,
                          gates \o <<RYGate(1, remaining_right, right_qubits[i]),
                                     CXGate(right_qubits[i], right_qubits[i + 1])>>)
                 ELSE split_right(ctrl, right_qubits, i + 1, gates)

RECURSIVE build_balanced_w_split(_, _)
build_balanced_w_split(gates, qubits) ==
    LET n == Len(qubits)
        mid == n \div 2
        left_qubits == Slice(qubits, 1, mid)
        right_qubits == Slice(qubits, mid + 1, n)
        k == Len(left_qubits)
        m == Len(right_qubits)
    IN IF n = 1
       THEN Append(gates, XGate(qubits[1]))
       ELSE IF n = 2
       THEN gates \o <<XGate(qubits[1]), HGate(qubits[1]),
                       CXGate(qubits[1], qubits[2])>>
       ELSE LET left == build_balanced_w_split(gates, left_qubits)
            IN IF k > 0 /\ m > 0
               \* sin_half_theta = sqrt(p_right / (p_left + p_right)), p = m/n, k/n
               THEN split_right(qubits[1], right_qubits, 0,
                                Append(left, RYGate(m, n, qubits[1])))
               ELSE left

\* --------------------------------------------------- create_balanced_w_state
\* create_balanced_w_state keeping the linear chain only up to n = 2
create_balanced_w_state_two(n) ==
    IF n < 1
    THEN Raise("ValueError")
    ELSE IF n <= 2
         THEN create_linear_w_state(n)
         ELSE Return("circuit",
                     build_balanced_w_split(<<>>, [j \in 1..n |-> j - 1]),
                     <<>>)

create_balanced_w_state(n) ==
    IF n < 1
    THEN Raise("ValueError")
    ELSE IF n <= 3
         THEN create_linear_w_state(n)
         ELSE Return("circuit",
                     build_balanced_w_split(<<>>, [j \in 1..n |-> j - 1]),
                     <<>>)

\* ------------------------------------------ create_improved_balanced_w_state
\* improved_for with the bound on the target index off by one (target <= n)
RECURSIVE improved_for_past(_, _, _, _, _)
improved_for_past(n, active_qubits, i, next_active, gates) ==
    IF i > Len(active_qubits)
    THEN [next_active |-> next_active, gates |-> gates]
    ELSE LET source == active_qubits[i]
             target == Len(active_qubits) + Len(next_active)
             remaining_targets == n - target
         IN IF target <= n
            THEN improved_for_past(n, active_qubits, i + 1,
                              Append(next_active, target),
                              gates \o <<RYGate(1, remaining_targets + 1, source),
                                         CXGate(source, target)>>)
            ELSE improved_for_past(n, active_qubits, i + 1, next_active, gates)

\* improved_for stopping one target early (target < n - 1)
RECURSIVE improved_for_early(_, _, _, _, _)
improved_for_early(n, active_qubits, i, next_active, gates) ==
    IF i > Len(active_qubits)
    THEN [next_active |-> next_active, gates |-> gates]
    ELSE LET source == active_qubits[i]
             target == Len(active_qubits) + Len(next_active)
             remaining_targets == n - target
         IN IF target < n - 1 /\ remaining_targets > 0
            THEN improved_for_early(n, active_qubits, i + 1,
                              Append(next_active, target),
                              gates \o <<RYGate(1, remaining_targets + 1, source),
                                         CXGate(source, target)>>)
            ELSE improved_for_early(n, active_qubits, i + 1, next_active, gates)

\* improved_for leaving the for loop after the first pair of a round
RECURSIVE improved_for_single(_, _, _, _, _)
improved_for_single(n, active_qubits, i, next_active, gates) ==
    IF i > Len(active_qubits)
    THEN [next_active |-> next_active, gates |-> gates]
    ELSE LET source == active_qubits[i]
             target == Len(active_qubits) + Len(next_active)
             remaining_targets == n - target
         IN IF target < n /\ remaining_targets > 0
            THEN improved_for_single(n, active_qubits, Len(active_qubits) + 1,
                              Append(next_active, target),
                              gates \o <<RYGate(1, remaining_targets + 1, source),
                                         CXGate(source, target)>>)
            ELSE improved_for_single(n, active_qubits, i + 1, next_active, gates)

\* improved_for with the angle taken from remaining_targets, not counting
\* the source itself (1.0 / remaining_targets)
RECURSIVE improved_for_nooffset(_, _, _, _, _)
improved_for_nooffset(n, active_qubits, i, next_active, gates) ==
    IF i > Len(active_qubits)
    THEN [next_active |-> next_active, gates |-> gates]
    ELSE LET source == active_qubits[i]
             target == Len(active_qubits) + Len(next_active)
             remaining_targets == n - target
         IN IF target < n /\ remaining_targets > 0
            THEN improved_for_nooffset(n, active_qubits, i + 1,
                              Append(next_active, target),
                              gates \o <<RYGate(1, remaining_targets, source),
                                         CXGate(source, target)>>)
            ELSE improved_for_nooffset(n, active_qubits, i + 1, next_active, gates)

\* improved_for with the arguments of cx exchanged (qc.cx(target, source))
RECURSIVE improved_for_swapped(_, _, _, _, _)
improved_for_swapped(n, active_qubits, i, next_active, gates) ==
    IF i > Len(active_qubits)
    THEN [next_active |-> next_active, gates |-> gates]
    ELSE LET source == active_qubits[i]
             target == Len(active_qubits) + Len(next_active)
             remaining_targets == n - target
         IN IF target < n /\ remaining_targets > 0
            THEN improved_for_swapped(n, active_qubits, i + 1,
                              Append(next_active, target),
                              gates \o <<RYGate(1, remaining_targets + 1, source),
                                         CXGate(target, source)>>)
            ELSE improved_for_swapped(n, active_qubits, i + 1, next_active, gates)

\* improved_for with the source of a target taken from the binary-heap layout
\* (the parent of target t is (t - 1) // 2) instead of the enumeration
RECURSIVE improved_for_heap(_, _, _, _, _)
improved_for_heap(n, active_qubits, i, next_active, gates) ==
    IF i > Len(active_qubits)
    THEN [next_active |-> next_active, gates |-> gates]
    ELSE LET target == Len(active_qubits) + Len(next_active)
             source == (target - 1) \div 2
             remaining_targets == n - target
         IN IF target < n /\ remaining_targets > 0
            THEN improved_for_heap(n, active_qubits, i + 1,
                              Append(next_active, target),
                              gates \o <<RYGate(1, remaining_targets + 1, source),
                                         CXGate(source, target)>>)
            ELSE improved_for_heap(n, active_qubits, i + 1, next_active, gates)

\* "for i, source in enumerate(active_qubits)" from position i on (1-based i)
RECURSIVE improved_for(_, _, _, _, _)
improved_for(n, active_qubits, i, next_active, gates) ==
    IF i > Len(active_qubits)
    THEN [next_active |-> next_active, gates |-> gates]
    ELSE LET source == active_qubits[i]
             target == Len(active_qubits) + Len(next_active)
             remaining_targets == n - target
         IN IF target < n /\ remaining_targets > 0
            THEN improved_for(n, active_qubits, i + 1,
                              Append(next_active, target),
                              gates \o <<RYGate(1, remaining_targets + 1, source),
                                         CXGate(source, target)>>)
            ELSE improved_for(n, active_qubits, i + 1, next_active, gates)

\* "while len(active_qubits) < n", with the safety break on no progress
RECURSIVE improved_while(_, _, _)
improved_while(n, active_qubits, gates) ==
    IF Len(active_qubits) < n
    THEN LET round == improved_for(n, active_qubits, 1, <<>>, gates)
         IN IF round.next_active = <<>>
            THEN round.gates
            ELSE improved_while(n, active_qubits \o round.next_active, round.gates)
    ELSE gates

create_improved_balanced_w_state(n) ==
    IF n < 1
    THEN Raise("ValueError")
    ELSE IF n <= 4
         THEN create_linear_w_state(n)
         ELSE Return("circuit", improved_while(n, <<0>>, <<XGate(0)>>), <<>>)

\* ------------------------------------------------------------------ WState
\* WState.__init__: Gate("w_state", n, [])
WState(n) ==
    IF n < 1
    THEN Raise("ValueError")
    ELSE Return("w_state", <<>>, <<>>)

\* ------------------------------------------------- state-vector evolution
\* (Statevector.from_instruction and state_fidelity, as _verify_w_state and
\* the examples call them; little-endian: qubit q is bit q of the index)
Iv(lo, hi) == [lo |-> lo, hi |-> hi]
IvAdd(a, b) == Iv(a.lo + b.lo, a.hi + b.hi)
IvSub(a, b) == Iv(a.lo - b.hi, a.hi - b.lo)
CeilDiv(x, d) == -((-x) \div d)
SetMin(S) == CHOOSE x \in S : \A y \in S : x <= y
SetMax(S) == CHOOSE x \in S : \A y \in S : x >= y
\* enclosure of a * c, both in units of 1/Scale
IvMul(a, c) ==
    LET ps == {a.lo * c.lo, a.lo * c.hi, a.hi * c.lo, a.hi * c.hi}
    IN Iv(SetMin(ps) \div Scale, CeilDiv(SetMax(ps), Scale))
\* enclosure of a * a
IvSquare(a) == IvMul(a, a)

\* the largest x in lo..hi with x * x <= t
RECURSIVE ISqrt(_, _, _)
ISqrt(t, lo, hi) ==
    IF lo >= hi
    THEN lo
    ELSE LET mid == (lo + hi + 1) \div 2
         IN IF mid * mid <= t THEN ISqrt(t, mid, hi) ELSE ISqrt(t, lo, mid - 1)

\* enclosure of sqrt(sn / sd), 0 <= sn <= sd, in units of 1/Scale
SqrtIv(sn, sd) ==
    LET lo == ISqrt((sn * Scale * Scale) \div sd, 0, Scale)
    IN IF lo * lo * sd = sn * Scale * Scale THEN Iv(lo, lo) ELSE Iv(lo, lo + 1)

Bit(b, q) == (b \div 2^q) % 2
Flip(b, q) == IF Bit(b, q) = 1 THEN b - 2^q ELSE b + 2^q

\* |0...0> on n qubits
ZeroState(n) == [b \in 0..(2^n - 1) |-> IF b = 0 THEN Iv(Scale, Scale) ELSE Iv(0, 0)]

\* RY(theta) = [[cos(theta/2), -sin(theta/2)], [sin(theta/2), cos(theta/2)]]
\* H = [[1, 1], [1, -1]] / sqrt(2)
ApplyGate(psi, n, g) ==
    LET q == g.qubits[1]
    IN IF g.name = "x"
       THEN [b \in 0..(2^n - 1) |-> psi[Flip(b, q)]]
       ELSE IF g.name = "cx"
       THEN [b \in 0..(2^n - 1) |->
                IF Bit(b, q) = 1 THEN psi[Flip(b, g.qubits[2])] ELSE psi[b]]
       ELSE IF g.name = "ry"
       THEN LET s == SqrtIv(g.sn, g.sd)
                c == SqrtIv(g.sd - g.sn, g.sd)
            IN [b \in 0..(2^n - 1) |->
                   IF Bit(b, q) = 0
                   THEN IvSub(IvMul(psi[b], c), IvMul(psi[Flip(b, q)], s))
                   ELSE IvAdd(IvMul(psi[Flip(b, q)], s), IvMul(psi[b], c))]
       ELSE LET r == SqrtIv(1, 2)
            IN [b \in 0..(2^n - 1) |->
                   IF Bit(b, q) = 0
                   THEN IvMul(IvAdd(psi[b], psi[Flip(b, q)]), r)
                   ELSE IvMul(IvSub(psi[Flip(b, q)], psi[b]), r)]

\* sum over b = from..to of ideal[b] * psi[b] (both real), by halves
RECURSIVE InnerProduct(_, _, _, _)
InnerProduct(ideal, psi, from, to) ==
    IF from = to
    THEN IvMul(psi[from], SqrtIv(ideal[from].sn, ideal[from].sd))
    ELSE LET mid == (from + to) \div 2
             left == InnerProduct(ideal, psi, from, mid)
             right == InnerProduct(ideal, psi, mid + 1, to)
         IN Iv(left.lo + right.lo, left.hi + right.hi)

\* state_fidelity(ideal, actual) = |<ideal|actual>|^2, in units of 1/Scale
state_fidelity(ideal, psi, n) ==
    LET ip == InnerProduct(ideal, psi, 0, 2^n - 1)
        sq == IvSquare(ip)
    IN IF ip.lo >= 0 \/ ip.hi <= 0 THEN sq ELSE Iv(0, sq.hi)

\* ======================================================== SimpleTranspiler
MaxLen == 4         \* longest circuit handed to _basic_optimize
MaxTLen == 3        \* longest circuit handed to transpile
MaxEdges == 4       \* largest number of pairs in a coupling map searched

\* qubits of the circuits (QuantumCircuit(4))
NumQubits == 4

\* an instruction of circuit.data: operation name, qubits, and the angle
\* parameter as a symbol ("" for none)
Instr(name, qubits, param) == [name |-> name, qubits |-> qubits, param |-> param]

\* the instructions the circuits are written with
Alphabet ==
    { Instr("x", <<0>>, ""), Instr("x", <<1>>, ""), Instr("h", <<0>>, ""),
      Instr("cx", <<0, 1>>, ""), Instr("cx", <<0, 2>>, ""),
      Instr("ry", <<1>>, "theta"), Instr("measure", <<0>>, "") }

Circuits(maxlen) == UNION { [1..len -> Alphabet] : len \in 0..maxlen }

\* "basis_gates or ['cx', 'rz', 'sx', 'x']"
DefaultBasis == {"cx", "rz", "sx", "x"}
BasisChoices == { DefaultBasis, {"rz", "sx"} }

\* a coupling map is the set of its (control, target) pairs
LinearTopology == { <<q, q + 1>> : q \in 0..(NumQubits - 2) }
AllPairs == { <<a, b>> : a, b \in 0..(NumQubits - 1) } \ { <<a, a>> : a \in 0..(NumQubits - 1) }

\* _build_coupling_graph: every qubit named in the map, with its neighbours
\* in both directions
build_coupling_graph(cm) ==
    LET nodes == { e[1] : e \in cm } \cup { e[2] : e \in cm }
    IN [q \in nodes |-> { e[2] : e \in {d \in cm : d[1] = q} }
                        \cup { e[1] : e \in {d \in cm : d[2] = q} }]

\* ------------------------------------------------------- _basic_optimize
\* the test of _basic_optimize without the comparison of the qubits
cancels_any_qubit(gates_to_apply, instruction) ==
    /\ gates_to_apply # <<>>
    /\ gates_to_apply[Len(gates_to_apply)].name = instruction.name
    /\ instruction.name \in {"x", "h"}

\* "if gates_to_apply and gates_to_apply[-1]['name'] == gate_name and
\*  gates_to_apply[-1]['qubits'] == qubits and gate_name in ['x', 'h']"
cancels(gates_to_apply, instruction) ==
    /\ gates_to_apply # <<>>
    /\ gates_to_apply[Len(gates_to_apply)].name = instruction.name
    /\ gates_to_apply[Len(gates_to_apply)].qubits = instruction.qubits
    /\ instruction.name \in {"x", "h"}

\* "for instruction in circuit.data" from position i on
RECURSIVE basic_optimize_loop(_, _, _)
basic_optimize_loop(data, i, gates_to_apply) ==
    IF i > Len(data)
    THEN gates_to_apply
    ELSE IF cancels(gates_to_apply, data[i])
         THEN basic_optimize_loop(data, i + 1,
                  SubSeq(gates_to_apply, 1, Len(gates_to_apply) - 1))
         ELSE basic_optimize_loop(data, i + 1, Append(gates_to_apply, data[i]))

basic_optimize(data) == basic_optimize_loop(data, 1, <<>>)

\* --------------------------------------------------- _decompose_to_basis
\* the instructions _decompose_gate appends for one instruction
decompose_gate(instruction) ==
    LET q == <<instruction.qubits[1]>>
    IN IF instruction.name = "h"
       THEN <<Instr("rz", q, "pi"), Instr("sx", q, ""), Instr("rz", q, "pi/2")>>
       ELSE IF instruction.name = "ry"
       THEN <<Instr("rz", q, "-pi/2"), Instr("sx", q, ""),
              Instr("rz", q, instruction.param), Instr("sx", q, ""),
              Instr("rz", q, "pi/2")>>
       ELSE IF instruction.name = "rx"
       THEN <<Instr("sx", q, ""), Instr("rz", q, instruction.param),
              Instr("sx", q, "")>>
       ELSE IF instruction.name = "cx"
       THEN <<Instr("cx", instruction.qubits, "")>>
       ELSE IF instruction.name = "x"
       THEN <<Instr("x", q, "")>>
       ELSE <<>>

\* what the loop of _decompose_to_basis appends for one instruction
decompose_one(basis, instruction) ==
    IF instruction.name \in basis
    THEN <<instruction>>
    ELSE decompose_gate(instruction)

RECURSIVE decompose_to_basis(_, _, _)
decompose_to_basis(basis, data, i) ==
    IF i > Len(data)
    THEN <<>>
    ELSE decompose_one(basis, data[i]) \o decompose_to_basis(basis, data, i + 1)

\* ---------------------------------------------------- _find_shortest_path
\* the elements of a set of qubits in ascending order
RECURSIVE Ascending(_)
Ascending(S) ==
    IF S = {}
    THEN <<>>
    ELSE LET least == SetMin(S) IN <<least>> \o Ascending(S \ {least})

\* the orders in which "for neighbor in self.coupling_graph[node]" may
\* enumerate a set
Orders(S) ==
    { s \in [1..Cardinality(S) -> S] : \A x \in S : \E j \in DOMAIN s : s[j] = x }

\* "for neighbor in ...: if neighbor not in visited: queue.append(...)"
RECURSIVE append_neighbors(_, _, _, _, _)
append_neighbors(queue, seen, walked, order, j) ==
    IF j > Len(order)
    THEN queue
    ELSE IF order[j] \notin seen
         THEN append_neighbors(Append(queue, [node |-> order[j],
                                              path |-> Append(walked, order[j])]),
                               seen, walked, order, j + 1)
         ELSE append_neighbors(queue, seen, walked, order, j + 1)

\* bfs_iteration taking the newest entry of the queue (queue.pop())
bfs_iteration_lifo(graph, goal, pending, seen, order) ==
    LET node == pending[Len(pending)].node
        walked == pending[Len(pending)].path
        rest == SubSeq(pending, 1, Len(pending) - 1)
    IN IF node \in seen
       THEN [returned |-> FALSE, path |-> <<>>, queue |-> rest, visited |-> seen]
       ELSE IF node = goal
       THEN [returned |-> TRUE, path |-> walked, queue |-> rest,
             visited |-> seen \cup {node}]
       ELSE [returned |-> FALSE, path |-> <<>>,
             queue |-> IF node \in DOMAIN graph
                       THEN append_neighbors(rest, seen \cup {node}, walked, order, 1)
                       ELSE rest,
             visited |-> seen \cup {node}]

\* one iteration of "while queue": queue.pop(0), the visited test, the test
\* for the end node, and the enumeration of the neighbours in this order
bfs_iteration(graph, goal, pending, seen, order) ==
    LET node == pending[1].node
        walked == pending[1].path
        rest == Tail(pending)
    IN IF node \in seen
       THEN [returned |-> FALSE, path |-> <<>>, queue |-> rest, visited |-> seen]
       ELSE IF node = goal
       THEN [returned |-> TRUE, path |-> walked, queue |-> rest,
             visited |-> seen \cup {node}]
       ELSE [returned |-> FALSE, path |-> <<>>,
             queue |-> IF node \in DOMAIN graph
                       THEN append_neighbors(rest, seen \cup {node}, walked, order, 1)
                       ELSE rest,
             visited |-> seen \cup {node}]

\* the neighbours of the node at the head of the queue (none if the node is
\* not in the graph)
NeighborsOf(graph, node) == IF node \in DOMAIN graph THEN graph[node] ELSE {}

\* the while loop, the neighbours enumerated in ascending order (the order
\* of a set of small integers)
RECURSIVE bfs_while(_, _, _, _, _)
bfs_while(graph, from, goal, pending, seen) ==
    IF pending = <<>>
    THEN <<from, goal>>
    ELSE LET step == bfs_iteration(graph, goal, pending, seen,
                         Ascending(NeighborsOf(graph, pending[1].node)))
         IN IF step.returned
            THEN step.path
            ELSE bfs_while(graph, from, goal, step.queue, step.visited)

find_shortest_path(graph, from, goal) ==
    IF from = goal
    THEN <<from>>
    ELSE bfs_while(graph, from, goal, <<[node |-> from, path |-> <<from>>]>>, {})

\* ------------------------------------------------------ _layout_and_route
are_connected(cm, q0, q1) == <<q0, q1>> \in cm \/ <<q1, q0>> \in cm

\* _add_routing_swaps: at most one swap, of the source with the second
\* qubit of the path
add_routing_swaps(graph, q0, q1) ==
    LET found == find_shortest_path(graph, q0, q1)
    IN IF Len(found) > 2
       THEN <<Instr("swap", <<q0, found[2]>>, "")>>
       ELSE <<>>

RECURSIVE layout_and_route(_, _, _)
layout_and_route(cm, data, i) ==
    IF i > Len(data)
    THEN <<>>
    ELSE LET qubits == data[i].qubits
             here == IF Len(qubits) = 2 /\ ~are_connected(cm, qubits[1], qubits[2])
                     THEN add_routing_swaps(build_coupling_graph(cm),
                                            qubits[1], qubits[2])
                          \o <<data[i]>>
                     ELSE <<data[i]>>
         IN here \o layout_and_route(cm, data, i + 1)

\* ------------------------------------------------------ _advanced_optimize
\* _flush_single_qubit_gates: the collected gates, qubit by qubit from q on
RECURSIVE flush_single_qubit_gates(_, _)
flush_single_qubit_gates(qubit_gates, q) ==
    IF q >= NumQubits
    THEN <<>>
    ELSE qubit_gates[q] \o flush_single_qubit_gates(qubit_gates, q + 1)

RECURSIVE advanced_optimize_loop(_, _, _)
advanced_optimize_loop(data, i, qubit_gates) ==
    IF i > Len(data)
    THEN flush_single_qubit_gates(qubit_gates, 0)
    ELSE IF Len(data[i].qubits) = 1
         THEN advanced_optimize_loop(data, i + 1,
                  [qubit_gates EXCEPT ![data[i].qubits[1]] = Append(@, data[i])])
         ELSE flush_single_qubit_gates(qubit_gates, 0) \o <<data[i]>>
              \o advanced_optimize_loop(data, i + 1,
                     [q \in 0..(NumQubits - 1) |-> <<>>])

advanced_optimize(data) ==
    advanced_optimize_loop(data, 1, [q \in 0..(NumQubits - 1) |-> <<>>])

\* ===================================================== the entry points
VARIABLES
    fn,         \* the entry point called
    n,          \* its argument
    pc,         \* "call", "raised", "returned", "sim", "verified"
    result,     \* what the call raised or returned
    psi,        \* the state vector evolved so far from the returned circuit
    simPos,     \* number of gates of result.qc applied to psi
    fidelity,   \* state_fidelity(create_ideal_w_state(n), psi) once computed
    dag,        \* the circuit graph run() mutates: its operation nodes in order
    opNodes,    \* the list dag.op_nodes() that run() iterates over
    idx,        \* position of the for loop in opNodes (1-based)
    verify,     \* self._verify
    runpc,      \* "scan", "done" (run returned the dag), "raised"
    log,        \* per scanned node: what run() did with it
    nextId,     \* next unused node id of the dag
    cmap,       \* self._cmap: the coupling map of the target, if one is given
    active_qubits,  \* create_improved_balanced_w_state: qubits holding amplitude
    layers,     \* per finished round of its while loop: the (source, target) pairs
    coupling_map,       \* SimpleTranspiler.coupling_map
    basis_gates,        \* SimpleTranspiler.basis_gates
    optimization_level, \* the argument of transpile
    original,   \* the circuit handed to transpile
    transpiled, \* the local "circuit" of transpile after the steps run so far
    prev,       \* the circuit the last step was applied to
    tpc,        \* position in transpile or in _find_shortest_path
    start,      \* _find_shortest_path: its arguments
    end,
    queue,      \* its list of (node, path) entries
    visited,    \* its set of visited nodes
    path        \* what it returned

buildVars == <<fn, n, pc, result, psi, simPos, fidelity>>
passVars == <<dag, opNodes, idx, verify, runpc, log, nextId, cmap>>
treeVars == <<active_qubits, layers>>
transVars == <<coupling_map, basis_gates, optimization_level, original, transpiled, prev, tpc>>
pathVars == <<start, end, queue, visited, path>>
vars == <<buildVars, passVars, treeVars, transVars, pathVars>>

\* no SimpleTranspiler is at work
TranspilerIdle ==
    /\ coupling_map = {} /\ basis_gates = {} /\ optimization_level = 0
    /\ original = <<>> /\ transpiled = <<>> /\ prev = <<>> /\ tpc = "idle"
    /\ start = 0 /\ end = 0 /\ queue = <<>> /\ visited = {} /\ path = <<>>

EntryPoints ==
    {"create_ideal_w_state", "create_linear_w_state", "create_balanced_w_state",
     "create_improved_balanced_w_state", "WState"}

\* WStateSynthesizer(target=None): self._cmap is None
NoTarget == [given |-> FALSE, edges |-> {}]

NoResult == [raised |-> FALSE, exc |-> "none", kind |-> "none", qc |-> <<>>, vec |-> <<>>]

BuildInit ==
    /\ fn \in EntryPoints
    /\ n \in (0 - MaxNeg)..MaxN
    /\ fn = "create_ideal_w_state" => n <= MaxSimN
    /\ pc = "call"
    /\ result = NoResult
    /\ psi = <<>>
    /\ simPos = 0
    /\ fidelity = Iv(0, 0)
    /\ dag = <<>> /\ opNodes = <<>> /\ idx = 1 /\ verify = FALSE
    /\ runpc = "done" /\ log = <<>> /\ nextId = 1 /\ cmap = NoTarget
    /\ active_qubits = <<>> /\ layers = <<>>
    /\ TranspilerIdle

Finish(r) ==
    /\ result' = r
    /\ pc' = IF r.raised THEN "raised" ELSE "returned"
    /\ UNCHANGED <<fn, n, psi, simPos, fidelity, passVars, treeVars, transVars, pathVars>>

CallIdeal ==
    /\ pc = "call" /\ fn = "create_ideal_w_state"
    /\ Finish(create_ideal_w_state(n))

CallLinear ==
    /\ pc = "call" /\ fn = "create_linear_w_state"
    /\ Finish(create_linear_w_state(n))

CallBalanced ==
    /\ pc = "call" /\ fn = "create_balanced_w_state"
    /\ Finish(create_balanced_w_state(n))

CallImproved ==
    /\ pc = "call" /\ fn = "create_improved_balanced_w_state"
    /\ Finish(create_improved_balanced_w_state(n))

CallWState ==
    /\ pc = "call" /\ fn = "WState"
    /\ Finish(WState(n))

\* Statevector.from_instruction(circuit): start from |0...0>
SimStart ==
    /\ pc = "returned" /\ result.kind = "circuit" /\ n <= MaxSimN
    /\ psi' = ZeroState(n)
    /\ simPos' = 0
    /\ pc' = "sim"
    /\ UNCHANGED <<fn, n, result, fidelity, passVars, treeVars, transVars, pathVars>>

\* ... and apply the circuit's gates in order
SimGate ==
    /\ pc = "sim" /\ simPos < Len(result.qc)
    /\ psi' = ApplyGate(psi, n, result.qc[simPos + 1])
    /\ simPos' = simPos + 1
    /\ UNCHANGED <<fn, n, pc, result, fidelity, passVars, treeVars, transVars, pathVars>>

\* state_fidelity(create_ideal_w_state(n), Statevector.from_instruction(qc))
SimFidelity ==
    /\ pc = "sim" /\ simPos = Len(result.qc)
    /\ fidelity' = state_fidelity(ideal_vector(n), psi, n)
    /\ pc' = "verified"
    /\ UNCHANGED <<fn, n, result, psi, simPos, passVars, treeVars, transVars, pathVars>>

BuildNext ==
    \/ CallIdeal \/ CallLinear \/ CallBalanced \/ CallImproved \/ CallWState
    \/ SimStart \/ SimGate \/ SimFidelity

SpecBuild == BuildInit /\ [][BuildNext]_vars

\* ============ create_improved_balanced_w_state, one round of its loop a step
MaxTreeN == 33      \* largest qubit count whose rounds are followed

TreeInit ==
    /\ fn = "create_improved_balanced_w_state"
    /\ n \in 0..MaxTreeN
    /\ pc = "call"
    /\ result = NoResult
    /\ active_qubits = <<>> /\ layers = <<>>
    /\ TranspilerIdle
    /\ psi = <<>> /\ simPos = 0 /\ fidelity = Iv(0, 0)
    /\ dag = <<>> /\ opNodes = <<>> /\ idx = 1 /\ verify = FALSE
    /\ runpc = "done" /\ log = <<>> /\ nextId = 1 /\ cmap = NoTarget

\* the function up to its while loop: the checks on n, "qc.x(0)" and
\* "active_qubits = [0]"
TreeEnter ==
    /\ pc = "call"
    /\ IF n < 1
       THEN /\ result' = Raise("ValueError")
            /\ pc' = "raised"
            /\ UNCHANGED treeVars
       ELSE IF n <= 4
       THEN /\ result' = create_linear_w_state(n)
            /\ pc' = "returned"
            /\ UNCHANGED treeVars
       ELSE /\ result' = Return("circuit", <<XGate(0)>>, <<>>)
            /\ active_qubits' = <<0>>
            /\ pc' = "while"
            /\ UNCHANGED layers
    /\ UNCHANGED <<fn, n, psi, simPos, fidelity, passVars, transVars, pathVars>>

IsCX(g) == g.name = "cx"

\* the (control, target) pairs of the cx gates of a gate list, in order
Pairs(gates) ==
    LET cxs == SelectSeq(gates, IsCX)
    IN [j \in 1..Len(cxs) |-> cxs[j].qubits]

\* TreeRound with a barrier across all qubits closing each round
TreeRound_barrier ==
    /\ pc = "while" /\ Len(active_qubits) < n
    /\ LET round == improved_for(n, active_qubits, 1, <<>>, result.qc)
           emitted == SubSeq(round.gates, Len(result.qc) + 1, Len(round.gates))
       IN /\ result' = [result EXCEPT !.qc =
                           Append(round.gates,
                                  [name |-> "barrier",
                                   qubits |-> [j \in 1..n |-> j - 1],
                                   sn |-> 0, sd |-> 1])]
          /\ active_qubits' = active_qubits \o round.next_active
          /\ layers' = IF round.next_active = <<>>
                       THEN layers
                       ELSE Append(layers, Pairs(emitted))
          /\ pc' = IF round.next_active = <<>> THEN "break" ELSE "while"
    /\ UNCHANGED <<fn, n, psi, simPos, fidelity, passVars, transVars, pathVars>>

\* one iteration of "while len(active_qubits) < n": the for loop over the
\* active qubits, "active_qubits.extend(next_active)", and the safety break
TreeRound ==
    /\ pc = "while" /\ Len(active_qubits) < n
    /\ LET round == improved_for(n, active_qubits, 1, <<>>, result.qc)
           emitted == SubSeq(round.gates, Len(result.qc) + 1, Len(round.gates))
       IN /\ result' = [result EXCEPT !.qc = round.gates]
          /\ active_qubits' = active_qubits \o round.next_active
          /\ layers' = IF round.next_active = <<>>
                       THEN layers
                       ELSE Append(layers, Pairs(emitted))
          /\ pc' = IF round.next_active = <<>> THEN "break" ELSE "while"
    /\ UNCHANGED <<fn, n, psi, simPos, fidelity, passVars, transVars, pathVars>>

\* the loop is left (its condition is false, or the break was taken):
\* "return qc"
TreeReturn ==
    /\ pc \in {"while", "break"}
    /\ pc = "while" => Len(active_qubits) >= n
    /\ pc' = "returned"
    /\ UNCHANGED <<fn, n, result, psi, simPos, fidelity, passVars, treeVars, transVars, pathVars>>

TreeNext == TreeEnter \/ TreeRound \/ TreeReturn

SpecTree == TreeInit /\ [][TreeNext]_vars

\* the call runs on its own thread of control until it returns or raises:
\* a step that can be taken is taken
SpecTreeFair == SpecTree /\ WF_vars(TreeNext)

\* ================================================= WStateSynthesizer.run
MaxW == 5           \* largest w_state marker in a circuit graph
MaxNodes == 2       \* largest number of operation nodes in a circuit graph
NumSlots == MaxW + 1

\* _MIN_SIZE one too small
MIN_SIZE_small == 4 - 1

\* WStateSynthesizer._MIN_SIZE
MIN_SIZE == 4

\* an operation node of the graph; origin is the id of the marker node a
\* spliced-in node replaced (0 for a node of the input graph)
Node(id, name, qargs, sn, sd, origin) ==
    [id |-> id, name |-> name, qargs |-> qargs, sn |-> sn, sd |-> sd,
     origin |-> origin]

\* "except Exception": the handler of run() catches every Exception subclass
Exceptions == {"ValueError", "CircuitError", "MemoryError"}
\* a handler that catches ValueError only
except_ValueError(exc) == exc = "ValueError"

except_Exception(exc) == exc \in Exceptions

\* "if fidelity < 0.99" for a fidelity known to lie in the enclosure f:
\* the comparison must come out true
\* the comparison with the threshold written as 0.0099
fidelity_is_low_typo(f) == 10000 * f.hi < 99 * Scale

fidelity_is_low(f) == 100 * f.hi < 99 * Scale

\* position of the node with this id in the graph
PosOf(d, id) == CHOOSE p \in 1..Len(d) : d[p].id = id

\* dag.substitute_node_with_dag(node, circuit_to_dag(circuit)): the node is
\* replaced in place by the circuit's operations in order, the circuit's
\* qubit i wired to node.qargs[i]
substitute_node_with_dag(d, node, circuit, firstId) ==
    LET p == PosOf(d, node.id)
        spliced == [j \in 1..Len(circuit) |->
                      Node(firstId + j - 1, circuit[j].name,
                           [a \in 1..Len(circuit[j].qubits) |->
                               node.qargs[circuit[j].qubits[a] + 1]],
                           circuit[j].sn, circuit[j].sd, node.id)]
    IN SubSeq(d, 1, p - 1) \o spliced \o SubSeq(d, p + 1, Len(d))

\* the graphs the pass is run on
QargChoices(m) ==
    { [j \in 1..m |-> j - 1],
      [j \in 1..m |-> NumSlots - j] }

NodeTemplates ==
    { [name |-> "w_state", qargs |-> q] :
          q \in UNION { QargChoices(m) : m \in (MIN_SIZE - 1)..MaxW } }
    \cup { [name |-> "h", qargs |-> <<0>>],
           [name |-> "cx", qargs |-> <<1, 0>>] }

Graphs ==
    UNION { [1..len -> NodeTemplates] : len \in 1..MaxNodes }

\* the pass object and the graph handed to run(), whatever the target
PassStart ==
    /\ \E g \in Graphs :
          dag = [j \in 1..Len(g) |-> Node(j, g[j].name, g[j].qargs, 0, 1, 0)]
    /\ opNodes = dag
    /\ nextId = Len(dag) + 1
    /\ idx = 1
    /\ verify \in BOOLEAN
    /\ runpc = "scan"
    /\ log = <<>>
    /\ fn = "create_improved_balanced_w_state" /\ n = 1 /\ pc = "call"
    /\ result = NoResult
    /\ psi = <<>> /\ simPos = 0 /\ fidelity = Iv(0, 0)
    /\ active_qubits = <<>> /\ layers = <<>>
    /\ TranspilerIdle

\* WStateSynthesizer() without a target
PassInit == PassStart /\ cmap = NoTarget

\* "self._cmap = target.build_coupling_map()": the undirected couplings of
\* the target over the qubit slots, a line or all-to-all
Coupling(edges) == [given |-> TRUE, edges |-> edges]
LineMap == { <<q, q + 1>> : q \in 0..(NumSlots - 2) }
FullMap == { <<a, b>> : a, b \in 0..(NumSlots - 1) } \ { <<a, a>> : a \in 0..(NumSlots - 1) }
CouplingMaps == { Coupling(LineMap), Coupling(FullMap) }

\* WStateSynthesizer(target=...)
TargetInit == PassStart /\ cmap \in CouplingMaps

Entry(node, outcome, f) == [id |-> node.id, outcome |-> outcome, fid |-> f]

\* "continue": on to the next node of the scan, the graph as it is
Continue(node, outcome, f) ==
    /\ log' = Append(log, Entry(node, outcome, f))
    /\ idx' = idx + 1
    /\ runpc' = "scan"
    /\ UNCHANGED <<dag, nextId>>

\* "dag.substitute_node_with_dag(node, circuit_to_dag(balanced_circuit))"
Substitute(node, circuit, f) ==
    /\ dag' = substitute_node_with_dag(dag, node, circuit, nextId)
    /\ nextId' = nextId + Len(circuit)
    /\ log' = Append(log, Entry(node, "substituted", f))
    /\ idx' = idx + 1
    /\ runpc' = "scan"

\* one iteration of "for node in dag.op_nodes()" up to the call of
\* _verify_w_state; buildExc: the exception raised inside the try block
\* while the replacement is built ("none": it is built)
RunNode ==
    /\ runpc = "scan" /\ idx <= Len(opNodes)
    /\ \E buildExc \in Exceptions \cup {"none"} :
        LET node == opNodes[idx]
            m == Len(node.qargs)
            built == create_improved_balanced_w_state(m)
            exc == IF built.raised THEN built.exc ELSE buildExc
        IN IF node.name # "w_state"
           THEN /\ buildExc = "none"
                /\ Continue(node, "other", Iv(0, 0))
                /\ UNCHANGED <<n, result, psi, simPos>>
           ELSE IF m < MIN_SIZE
           THEN /\ buildExc = "none"
                /\ Continue(node, "small", Iv(0, 0))
                /\ UNCHANGED <<n, result, psi, simPos>>
           ELSE IF exc # "none"
           THEN /\ IF except_Exception(exc)
                   THEN Continue(node, "failed", Iv(0, 0))
                   ELSE /\ runpc' = "raised"
                        /\ log' = Append(log, Entry(node, "raised", Iv(0, 0)))
                        /\ UNCHANGED <<dag, nextId, idx>>
                /\ UNCHANGED <<n, result, psi, simPos>>
           ELSE IF verify
           THEN /\ runpc' = "verify"
                /\ n' = m
                /\ result' = built
                /\ psi' = ZeroState(m)
                /\ simPos' = 0
                /\ UNCHANGED <<dag, nextId, idx, log>>
           ELSE /\ Substitute(node, built.qc, Iv(0, 0))
                /\ UNCHANGED <<n, result, psi, simPos>>
    /\ UNCHANGED <<opNodes, verify, cmap, treeVars, fn, pc, fidelity, transVars, pathVars>>

\* _verify_w_state: Statevector.from_instruction applies the next gate
VerifyGate ==
    /\ runpc = "verify" /\ simPos < Len(result.qc)
    /\ psi' = ApplyGate(psi, n, result.qc[simPos + 1])
    /\ simPos' = simPos + 1
    /\ UNCHANGED <<fn, n, pc, result, fidelity, passVars, treeVars, transVars, pathVars>>

\* _verify_w_state: an exception inside its try block; it returns 0.0, and
\* run() takes "if fidelity < 0.99: continue"
VerifyRaises ==
    /\ runpc = "verify"
    /\ fidelity' = Iv(0, 0)
    /\ Continue(opNodes[idx], "low_fidelity", Iv(0, 0))
    /\ UNCHANGED <<opNodes, verify, cmap, treeVars, fn, n, pc, result, psi, simPos, transVars, pathVars>>

\* _verify_w_state returns state_fidelity(ideal, actual); run() compares it
\* with 0.99 and either continues or substitutes the node
VerifyDecide ==
    /\ runpc = "verify" /\ simPos = Len(result.qc)
    /\ LET ideal == create_ideal_w_state(n)
           f == state_fidelity(ideal.vec, psi, n)
       IN /\ fidelity' = f
          /\ \/ /\ fidelity_is_low(f) \/ 100 * f.lo < 99 * Scale
                /\ Continue(opNodes[idx], "low_fidelity", f)
             \/ /\ ~fidelity_is_low(f)
                /\ Substitute(opNodes[idx], result.qc, f)
    /\ UNCHANGED <<opNodes, verify, cmap, treeVars, fn, n, pc, result, psi, simPos, transVars, pathVars>>

\* "return dag"
RunReturn ==
    /\ runpc = "scan" /\ idx > Len(opNodes)
    /\ runpc' = "done"
    /\ UNCHANGED <<dag, opNodes, idx, verify, log, nextId, cmap, buildVars, treeVars, transVars, pathVars>>

PassNext == RunNode \/ VerifyGate \/ VerifyRaises \/ VerifyDecide \/ RunReturn

SpecPass == PassInit /\ [][PassNext]_vars

SpecTarget == TargetInit /\ [][PassNext]_vars

\* ================================================= SimpleTranspiler calls
\* the builders and the pass are not running
SynthIdle ==
    /\ fn = "none" /\ n = 0 /\ pc = "idle" /\ result = NoResult
    /\ psi = <<>> /\ simPos = 0 /\ fidelity = Iv(0, 0)
    /\ dag = <<>> /\ opNodes = <<>> /\ idx = 1 /\ verify = FALSE
    /\ runpc = "done" /\ log = <<>> /\ nextId = 1 /\ cmap = NoTarget
    /\ active_qubits = <<>> /\ layers = <<>>

PathIdle ==
    /\ start = 0 /\ end = 0 /\ queue = <<>> /\ visited = {} /\ path = <<>>

\* SimpleTranspiler(coupling_map, basis_gates).transpile(circuit,
\* optimization_level) on the circuits of at most maxlen instructions
TranspileCall(maxlen, maps, bases, levels) ==
    /\ SynthIdle
    /\ PathIdle
    /\ coupling_map \in maps
    /\ basis_gates \in bases
    /\ optimization_level \in levels
    /\ original \in Circuits(maxlen)
    /\ transpiled = original
    /\ prev = original
    /\ tpc = "transpile"

TranspileInit ==
    TranspileCall(MaxTLen, {{}, LinearTopology}, BasisChoices, 0..2)

\* transpile with the default basis, no coupling map and
\* optimization_level >= 1
OptimizeInit ==
    TranspileCall(MaxLen, {{}}, {DefaultBasis}, 1..2)

\* Step 1 (analysis, which changes nothing) and Step 2:
\* "if optimization_level >= 1: circuit = self._basic_optimize(circuit)"
TranspileOptimize ==
    /\ tpc = "transpile"
    /\ prev' = transpiled
    /\ transpiled' = IF optimization_level >= 1
                     THEN basic_optimize(transpiled)
                     ELSE transpiled
    /\ tpc' = "optimized"
    /\ UNCHANGED <<coupling_map, basis_gates, optimization_level, original>>
    /\ UNCHANGED <<buildVars, passVars, treeVars, pathVars>>

\* Step 3: "circuit = self._decompose_to_basis(circuit)"
TranspileDecompose ==
    /\ tpc = "optimized"
    /\ prev' = transpiled
    /\ transpiled' = decompose_to_basis(basis_gates, transpiled, 1)
    /\ tpc' = "decomposed"
    /\ UNCHANGED <<coupling_map, basis_gates, optimization_level, original>>
    /\ UNCHANGED <<buildVars, passVars, treeVars, pathVars>>

\* Step 4: "if self.coupling_map: circuit = self._layout_and_route(circuit)"
TranspileRoute ==
    /\ tpc = "decomposed"
    /\ prev' = transpiled
    /\ transpiled' = IF coupling_map # {}
                  THEN layout_and_route(coupling_map, transpiled, 1)
                  ELSE transpiled
    /\ tpc' = "routed"
    /\ UNCHANGED <<coupling_map, basis_gates, optimization_level, original>>
    /\ UNCHANGED <<buildVars, passVars, treeVars, pathVars>>

\* Step 5: "if optimization_level >= 2: circuit = self._advanced_optimize(circuit)"
\* and "return circuit"
TranspileReturn ==
    /\ tpc = "routed"
    /\ prev' = transpiled
    /\ transpiled' = IF optimization_level >= 2
                     THEN advanced_optimize(transpiled)
                     ELSE transpiled
    /\ tpc' = "returned"
    /\ UNCHANGED <<coupling_map, basis_gates, optimization_level, original>>
    /\ UNCHANGED <<buildVars, passVars, treeVars, pathVars>>

TranspileNext ==
    TranspileOptimize \/ TranspileDecompose \/ TranspileRoute \/ TranspileReturn

SpecTranspile == TranspileInit /\ [][TranspileNext]_vars

SpecOptimize == OptimizeInit /\ [][TranspileNext]_vars

\* ------------------------------------- _find_shortest_path(start, end)
\* the coupling maps of at most MaxEdges pairs
PathMaps == { cm \in SUBSET { e \in AllPairs : e[1] < e[2] } : Cardinality(cm) <= MaxEdges }

PathInit ==
    /\ SynthIdle
    /\ coupling_map \in PathMaps
    /\ basis_gates = DefaultBasis
    /\ optimization_level = 0
    /\ original = <<>> /\ transpiled = <<>> /\ prev = <<>>
    /\ start \in 0..(NumQubits - 1)
    /\ end \in 0..(NumQubits - 1)
    /\ queue = <<>> /\ visited = {} /\ path = <<>>
    /\ tpc = "path_call"

\* "if start == end: return [start]", else "visited = set()" and
\* "queue = [(start, [start])]"
PathEnter ==
    /\ tpc = "path_call"
    /\ IF start = end
       THEN /\ path' = <<start>>
            /\ tpc' = "path_returned"
            /\ UNCHANGED <<queue, visited>>
       ELSE /\ queue' = <<[node |-> start, path |-> <<start>>]>>
            /\ visited' = {}
            /\ tpc' = "while"
            /\ UNCHANGED path
    /\ UNCHANGED <<start, end, buildVars, passVars, treeVars>>
    /\ UNCHANGED <<coupling_map, basis_gates, optimization_level, original, transpiled, prev>>

\* one iteration of "while queue"
PathIterate ==
    /\ tpc = "while"
    /\ queue # <<>>
    /\ \E order \in Orders(NeighborsOf(build_coupling_graph(coupling_map), queue[1].node)) :
         LET step == bfs_iteration(build_coupling_graph(coupling_map), end,
                                   queue, visited, order)
         IN /\ queue' = step.queue
            /\ visited' = step.visited
            /\ path' = step.path
            /\ tpc' = IF step.returned THEN "path_returned" ELSE "while"
    /\ UNCHANGED <<start, end, buildVars, passVars, treeVars>>
    /\ UNCHANGED <<coupling_map, basis_gates, optimization_level, original, transpiled, prev>>

\* the queue ran empty: "return [start, end]"
PathFallback ==
    /\ tpc = "while"
    /\ queue = <<>>
    /\ path' = <<start, end>>
    /\ tpc' = "path_returned"
    /\ UNCHANGED <<start, end, queue, visited, buildVars, passVars, treeVars>>
    /\ UNCHANGED <<coupling_map, basis_gates, optimization_level, original, transpiled, prev>>

PathNext == PathEnter \/ PathIterate \/ PathFallback

SpecPath == PathInit /\ [][PathNext]_vars

\* the call runs on one thread, which keeps taking its next step
SpecPathFair == SpecPath /\ WF_vars(PathNext)

\* ================================================================ claims
Builders ==
    {"create_linear_w_state", "create_balanced_w_state",
     "create_improved_balanced_w_state"}

\* the amplitude enclosed by a is certainly not zero
NonZero(a) == a.lo > 0 \/ a.hi < 0
\* b is a basis state with exactly one of the qubits 0..top set
OneHot(b, top) == \E i \in 0..top : b = 2^i
Returned == pc \in {"returned", "sim", "verified"}

\* C1: the state prepared by create_linear_w_state(n) has fidelity >= 0.999
\* with the ideal W-state: its non-zero amplitudes are exactly the n basis
\* states with one qubit set, each with probability 1/n.
C1_LinearIsW ==
    (pc = "verified" /\ fn = "create_linear_w_state") =>
        /\ 1000 * fidelity.hi >= 999 * Scale
        /\ \A b \in DOMAIN psi : NonZero(psi[b]) <=> OneHot(b, n - 1)
        /\ \A i \in 0..(n - 1) :
              /\ n * psi[2^i].lo * psi[2^i].lo <= Scale * Scale
              /\ n * psi[2^i].hi * psi[2^i].hi >= Scale * Scale

\* C2: in the linear chain, after the initial X and after every pair k
\* (simPos = 2k + 3 gates applied) every basis state with non-zero amplitude
\* has exactly one qubit set, among qubits 0..k+1.
C2_PartialW ==
    (pc = "sim" /\ fn = "create_linear_w_state" /\ n >= 2 /\ simPos % 2 = 1) =>
        \A b \in DOMAIN psi :
            NonZero(psi[b]) => OneHot(b, (simPos - 1) \div 2)

\* C3: for n >= 2 create_linear_w_state(n) is X on qubit 0 followed, for
\* k = 0..n-2 in order, by the rotation on qubit k with remaining count n-k
\* and the cx from k to k+1, and nothing else.
C3_LinearShape ==
    (Returned /\ fn = "create_linear_w_state" /\ n >= 2) =>
        /\ ~result.raised
        /\ Len(result.qc) = 1 + 2 * (n - 1)
        /\ result.qc[1] = [name |-> "x", qubits |-> <<0>>, sn |-> 0, sd |-> 1]
        /\ \A k \in 0..(n - 2) :
              /\ result.qc[2 * k + 2] =
                    [name |-> "ry", qubits |-> <<k>>, sn |-> 1, sd |-> n - k]
              /\ result.qc[2 * k + 3] =
                    [name |-> "cx", qubits |-> <<k, k + 1>>, sn |-> 0, sd |-> 1]

C3_Witness ==
    pc = "returned" /\ fn = "create_linear_w_state" /\ n = 5
        /\ Len(result.qc) = 9

\* C4: every gate of create_improved_balanced_w_state(n) and of
\* create_balanced_w_state(n) acts only on qubit indices in 0..n-1.
C4_IndicesInRange ==
    (Returned /\ fn \in {"create_improved_balanced_w_state",
                         "create_balanced_w_state"}) =>
        \A j \in 1..Len(result.qc) :
            \A a \in 1..Len(result.qc[j].qubits) :
                result.qc[j].qubits[a] >= 0 /\ result.qc[j].qubits[a] <= n - 1

C4_Witness ==
    pc = "returned" /\ fn = "create_improved_balanced_w_state" /\ n = 18
        /\ \E j \in 1..Len(result.qc) : result.qc[j].qubits = <<1, 17>>

\* C9: for n < 1 every entry point raises ValueError to its caller and
\* returns nothing.
C9_RejectsEmpty ==
    (pc # "call" /\ n < 1) =>
        /\ pc = "raised"
        /\ result.raised /\ result.exc = "ValueError"
        /\ result.kind = "none" /\ result.qc = <<>> /\ result.vec = <<>>

C9_Witness ==
    pc = "raised" /\ n = 0 /\ fn = "create_ideal_w_state"

\* C10: for n = 1 each builder returns exactly one X on qubit 0, and the
\* state it prepares is |1>, the ideal one-qubit state, with fidelity 1.
C10_SingleQubit ==
    (n = 1 /\ fn \in Builders /\ pc # "call") =>
        /\ ~result.raised /\ result.kind = "circuit"
        /\ result.qc = <<[name |-> "x", qubits |-> <<0>>, sn |-> 0, sd |-> 1]>>
        /\ pc = "verified" =>
              /\ psi = [b \in 0..1 |-> IF b = 1 THEN Iv(Scale, Scale) ELSE Iv(0, 0)]
              /\ \A b \in 0..1 :
                    psi[b] = SqrtIv(ideal_vector(1)[b].sn, ideal_vector(1)[b].sd)
              /\ fidelity = Iv(Scale, Scale)

C10_Witness ==
    n = 1 /\ fn = "create_balanced_w_state" /\ pc = "verified" /\ simPos = 1

\* ------------------------------------------------- claims about the pass
Range(f) == {f[a] : a \in DOMAIN f}
\* positions of the nodes spliced in for the marker node id
Spliced(id) == {p \in 1..Len(dag) : dag[p].origin = id}
\* the marker node scanned e-th is in the graph as it was, nothing spliced
Untouched(e) ==
    /\ \E p \in 1..Len(dag) : dag[p] = opNodes[e]
    /\ Spliced(opNodes[e].id) = {}

\* C5: with verification on, a node is substituted only if the fidelity
\* computed for its candidate is >= 0.99; with a fidelity below 0.99 (0.0
\* when the verification raised) the node stays in the graph as it was.
C5_VerifyGates ==
    verify =>
        \A e \in 1..Len(log) :
            /\ log[e].outcome = "substituted" => 100 * log[e].fid.hi >= 99 * Scale
            /\ (log[e].outcome \in {"substituted", "low_fidelity"}
                    /\ 100 * log[e].fid.hi < 99 * Scale) =>
                  log[e].outcome = "low_fidelity" /\ Untouched(e)

C5_Witness ==
    /\ verify /\ runpc = "done"
    /\ \E e \in 1..Len(log) :
          /\ log[e].outcome = "low_fidelity" /\ log[e].fid.lo > 0
          /\ Len(opNodes[e].qargs) = 5
    /\ \E e \in 1..Len(log) :
          log[e].outcome = "low_fidelity" /\ log[e].fid = Iv(0, 0)

\* C6: after a marker node over the slots S = (s_0..s_{m-1}) is substituted,
\* the spliced-in gates touch exactly the set S, and they are the gates of
\* the replacement circuit in order with its qubit i on slot s_i.
C6_SlotsPreserved ==
    \A e \in 1..Len(log) :
        log[e].outcome = "substituted" =>
            LET S == opNodes[e].qargs
                ps == Spliced(opNodes[e].id)
                first == CHOOSE p \in ps : \A q \in ps : p <= q
                circuit == create_improved_balanced_w_state(Len(S)).qc
            IN /\ ps # {}
               /\ UNION {Range(dag[p].qargs) : p \in ps} = Range(S)
               /\ ps = first..(first + Len(circuit) - 1)
               /\ \A j \in 1..Len(circuit) :
                     /\ dag[first + j - 1].name = circuit[j].name
                     /\ Len(dag[first + j - 1].qargs) = Len(circuit[j].qubits)
                     /\ \A a \in 1..Len(circuit[j].qubits) :
                           dag[first + j - 1].qargs[a] = S[circuit[j].qubits[a] + 1]

C6_Witness ==
    /\ runpc = "done"
    /\ \E e \in 1..Len(log) :
          /\ log[e].outcome = "substituted"
          /\ Len(opNodes[e].qargs) = 5 /\ opNodes[e].qargs[1] = NumSlots - 1
          /\ \E p \in Spliced(opNodes[e].id) :
                /\ dag[p].name = "cx"
                /\ dag[p].qargs = <<NumSlots - 1, NumSlots - 5>>

\* C7: every node that is not a w_state marker of at least 4 qubits is in
\* the graph after run() with the same operation and qubits, and in the
\* same order relative to every other node and to the replacements.
KeptAsIs(x) == x.name # "w_state" \/ Len(x.qargs) < 4
KeptInDag(x) == x.origin = 0 /\ KeptAsIs(x)
\* position in the input graph of the node x is, or was spliced in for
Source(x) == IF x.origin = 0 THEN x.id ELSE x.origin

C7_OthersKept ==
    /\ SelectSeq(dag, KeptInDag) = SelectSeq(opNodes, KeptAsIs)
    /\ \A p, q \in 1..Len(dag) : p < q => Source(dag[p]) <= Source(dag[q])

C7_Witness ==
    /\ runpc = "done" /\ Len(opNodes) = 2
    /\ opNodes[1].name = "w_state" /\ Len(opNodes[1].qargs) = 3
    /\ log[2].outcome = "substituted"
    /\ dag[1] = opNodes[1]

\* C8: an exception raised while the replacement of one marker node is
\* built does not leave run(): that node stays in the graph unmodified, and
\* every later node of the scan is processed as without the failure.
C8_FailSoft ==
    /\ runpc # "raised"
    /\ \A e \in 1..Len(log) : log[e].outcome = "failed" => Untouched(e)
    /\ (runpc = "done") =>
          /\ Len(log) = Len(opNodes)
          /\ \A e \in 1..Len(log) :
                /\ log[e].id = opNodes[e].id
                /\ KeptAsIs(opNodes[e]) <=> log[e].outcome \in {"other", "small"}
                /\ (~KeptAsIs(opNodes[e]) /\ log[e].outcome # "failed") =>
                      /\ log[e].outcome \in {"substituted", "low_fidelity"}
                      /\ ~verify => log[e].outcome = "substituted"
                      /\ log[e].outcome = "substituted" =>
                            Cardinality(Spliced(opNodes[e].id)) =
                              Len(create_improved_balanced_w_state(
                                      Len(opNodes[e].qargs)).qc)

C8_Witness ==
    /\ runpc = "done" /\ Len(log) = 2
    /\ log[1].outcome = "failed" /\ log[2].outcome = "substituted"

\* ---------------------------------------------------------------- C11
\* two qubit slots are coupled in the target's coupling map
Adjacent(a, b) == <<a, b>> \in cmap.edges \/ <<b, a>> \in cmap.edges

\* the slots of "within" reachable from S along couplings inside "within"
RECURSIVE Reach(_, _)
Reach(S, within) ==
    LET next == S \cup {b \in within : \E a \in S : Adjacent(a, b)}
    IN IF next = S THEN S ELSE Reach(next, within)

\* the coupling map connects these qubit slots
Connects(qs) == \A q \in qs : Reach({q}, qs) = qs

\* C11: when the pass has a target whose coupling map connects the qubits of
\* a marker node, every cx spliced in for that node acts on two qubits that
\* are adjacent in the coupling map.
C11_CouplingAdjacent ==
    cmap.given =>
        \A p \in 1..Len(dag) :
            (/\ dag[p].origin # 0
             /\ dag[p].name = "cx"
             /\ Connects(Range(opNodes[dag[p].origin].qargs)))
            => Adjacent(dag[p].qargs[1], dag[p].qargs[2])

\* ---------------------------------------------------------------- C12
\* the nodes spliced in for the marker node are, in order and wired to the
\* marker's qubits, the gates of this circuit
SplicedIs(node, circuit) ==
    LET ps == Spliced(node.id)
    IN /\ Cardinality(ps) = Len(circuit)
       /\ ps # {} =>
            LET first == CHOOSE p \in ps : \A o \in ps : p <= o
            IN \A j \in 1..Len(circuit) :
                  LET x == dag[first + j - 1]
                      g == circuit[j]
                  IN /\ x.origin = node.id
                     /\ x.name = g.name /\ x.sn = g.sn /\ x.sd = g.sd
                     /\ x.qargs = [a \in 1..Len(g.qubits) |->
                                      node.qargs[g.qubits[a] + 1]]

\* C12: with verification off, when run() has returned, every w_state marker
\* on n >= 4 qubits (whose replacement was built without a fault) has been
\* replaced, the circuit spliced in is not the linear chain of
\* create_linear_w_state(n), and no such marker is left in the graph.
C12_TreeReplacesEveryMarker ==
    (runpc = "done" /\ ~verify) =>
        \A e \in Range(log) :
            LET node == opNodes[e.id]
                m == Len(node.qargs)
            IN (node.name = "w_state" /\ m >= 4 /\ e.outcome # "failed") =>
                  /\ e.outcome = "substituted"
                  /\ \A p \in 1..Len(dag) : dag[p].id # node.id
                  /\ ~SplicedIs(node, linear_gates(m))

\* ---------------------------------------------------------------- C13
\* floor(log2(x)) for x >= 1
RECURSIVE FloorLog2(_)
FloorLog2(x) == IF x < 2 THEN 0 ELSE 1 + FloorLog2(x \div 2)

\* the rounds (1-based) and pairs in which qubit c is the target of a cx
EmittedFor(c) ==
    LET slots == UNION { { <<L, j>> : j \in 1..Len(layers[L]) } :
                         L \in 1..Len(layers) }
    IN { <<s[1], layers[s[1]][s[2]]>> : s \in {t \in slots : layers[t[1]][t[2]][2] = c} }

\* C13 as claimed: in the tree construction for n > 4, the parent of every
\* child c in 1..n-1 is floor((c-1)/2), and its pair is emitted in layer
\* floor(log2(c+1)).
C13_HeapLayout ==
    (pc = "returned" /\ n > 4) =>
        \A c \in 1..(n - 1) :
            EmittedFor(c) = { <<FloorLog2(c + 1), <<(c - 1) \div 2, c>> >> }

\* C13, amended: in the tree construction for n > 4, the parent of every
\* child c in 1..n-1 is c - 2^floor(log2(c)) (c with its leading bit
\* cleared), and its pair is emitted in round floor(log2(c)) + 1 of the
\* while loop, counting rounds from 1.
C13_ParentAndLayer ==
    (pc = "returned" /\ n > 4) =>
        \A c \in 1..(n - 1) :
            EmittedFor(c) =
                { <<FloorLog2(c) + 1, <<c - 2^FloorLog2(c), c>> >> }

C13_Witness ==
    /\ pc = "returned" /\ n = 9
    /\ Len(layers) = 4
    /\ layers[3] = << <<0, 4>>, <<1, 5>>, <<2, 6>>, <<3, 7>> >>
    /\ layers[4] = << <<0, 8>> >>

\* ---------------------------------------------------------------- C14
\* positions of the cx gates of a gate list
CXs(qc) == {j \in 1..Len(qc) : qc[j].name = "cx"}

\* the control of the first cx that targets c
ParentOf(qc, c) == qc[CHOOSE j \in CXs(qc) : qc[j].qubits[2] = c].qubits[1]

\* following parents from c reaches qubit 0 within this many steps
RECURSIVE ReachesRoot(_, _, _)
ReachesRoot(qc, c, steps) ==
    IF c = 0 THEN TRUE
    ELSE IF steps = 0 THEN FALSE
    ELSE ReachesRoot(qc, ParentOf(qc, c), steps - 1)

\* C14: in the circuit the tree construction returns for n > 4, the cx
\* gates define a rooted tree: qubit 0 is never a cx target, every qubit
\* 1..n-1 is the target of exactly one cx, following parents from any qubit
\* ends at qubit 0 (no cycle), and the control of every cx is qubit 0 or the
\* target of an earlier cx.
C14_RootedTree ==
    (pc = "returned" /\ n > 4) =>
        LET qc == result.qc
        IN /\ \A j \in CXs(qc) : qc[j].qubits[2] \in 1..(n - 1)
           /\ \A c \in 1..(n - 1) :
                 Cardinality({j \in CXs(qc) : qc[j].qubits[2] = c}) = 1
           /\ \A c \in 1..(n - 1) : ReachesRoot(qc, c, n)
           /\ \A j \in CXs(qc) :
                 \/ qc[j].qubits[1] = 0
                 \/ \E i \in CXs(qc) : i < j /\ qc[i].qubits[2] = qc[j].qubits[1]

C14_Witness ==
    /\ pc = "returned" /\ n = 8
    /\ Cardinality(CXs(result.qc)) = 7
    /\ \E j \in CXs(result.qc) : result.qc[j].qubits = <<3, 7>>

\* ---------------------------------------------------------------- C15
\* C15: the circuit the tree construction returns for n > 4 is X(0) followed
\* by n-1 pairs (ry, cx); the ry of the i-th pair is on the control of its
\* cx and has the angle 2*asin(sqrt(1/k)) with k = n - i + 1, so the counts
\* used are n, n-1, ..., 2 in this order.
C15_AngleSequence ==
    (pc = "returned" /\ n > 4) =>
        LET qc == result.qc
        IN /\ Len(qc) = 1 + 2 * (n - 1)
           /\ \A i \in 1..(n - 1) :
                 /\ qc[2 * i].name = "ry"
                 /\ qc[2 * i].sn = 1 /\ qc[2 * i].sd = n - i + 1
                 /\ qc[2 * i + 1].name = "cx"
                 /\ qc[2 * i].qubits = <<qc[2 * i + 1].qubits[1]>>

C15_Witness ==
    /\ pc = "returned" /\ n = 6
    /\ result.qc[2] = RYGate(1, 6, 0)
    /\ result.qc[6] = RYGate(1, 4, 1)
    /\ result.qc[10] = RYGate(1, 2, 1)

\* ---------------------------------------------------------------- C16
\* positions in the circuit of the cx gates of the pairs of layer L
LayerAt(L) ==
    { j \in CXs(result.qc) :
         \E k \in 1..Len(layers[L]) : result.qc[j].qubits = layers[L][k] }

\* a barrier across all n qubits
IsFullBarrier(g) == g.name = "barrier" /\ Len(g.qubits) = n

RECURSIVE CeilLog2(_)
CeilLog2(x) == IF x <= 1 THEN 0 ELSE 1 + CeilLog2((x + 1) \div 2)

\* C17: for n > 4 the tree construction emits its n-1 pairs in at most
\* ceil(log2 n) rounds of the while loop, no qubit being the source of two
\* pairs of one round: at most 4 rounds for n = 16, at most 5 for n = 32.
C17_LogLayers ==
    (pc = "returned" /\ n > 4) =>
        /\ Len(layers) <= CeilLog2(n)
        /\ n = 16 => Len(layers) <= 4
        /\ n = 32 => Len(layers) <= 5
        /\ Cardinality(CXs(result.qc)) = n - 1
        /\ UNION { LayerAt(L) : L \in 1..Len(layers) } = CXs(result.qc)
        /\ \A L \in 1..Len(layers) :
              \A j, k \in 1..Len(layers[L]) :
                  j # k => layers[L][j][1] # layers[L][k][1]

C17_Witness ==
    /\ pc = "returned" /\ n = 32
    /\ Len(layers) = 5
    /\ Len(layers[5]) = 16
    /\ Cardinality(CXs(result.qc)) = 31

\* ---------------------------------------------------------------- C18
\* QuantumCircuit.depth(): every gate sits one level above the highest level
\* reached so far on any of its qubits; level[q + 1] is the level reached on
\* qubit q
RECURSIVE Zeros(_)
Zeros(m) == IF m = 0 THEN <<>> ELSE Append(Zeros(m - 1), 0)

\* the levels with those of qubits[a..] set to top
RECURSIVE raise_levels(_, _, _, _)
raise_levels(level, qubits, a, top) ==
    IF a > Len(qubits)
    THEN level
    ELSE raise_levels([level EXCEPT ![qubits[a] + 1] = top], qubits, a + 1, top)

\* the levels after the gates qc[from..to], taken in order, by halves; the
\* levels after the first half are computed before the second half is
\* entered
RECURSIVE depth_levels(_, _, _, _)
depth_levels(qc, from, to, level) ==
    IF from > to
    THEN level
    ELSE IF from = to
    THEN LET top == SetMax({level[q + 1] : q \in Range(qc[from].qubits)}) + 1
         IN raise_levels(level, qc[from].qubits, 1, top)
    ELSE LET mid == (from + to) \div 2
             first == depth_levels(qc, from, mid, level)
         IN IF Len(first) = Len(level)
            THEN depth_levels(qc, mid + 1, to, first)
            ELSE first

\* the length of the longest chain of gates of an m-qubit circuit
depth(qc, m) == SetMax(Range(depth_levels(qc, 1, Len(qc), Zeros(m))))

\* C18 as claimed: the circuit create_linear_w_state(8) returns has depth
\* exactly 14.
C18_LinearDepth14 ==
    (Returned /\ fn = "create_linear_w_state" /\ n = 8) =>
        depth(result.qc, n) = 14

\* C18, amended: the circuit create_linear_w_state(8) returns has depth
\* exactly 15: the X on qubit 0 and then the 2 x 7 gates of the seven
\* (ry, cx) pairs, each sharing a qubit with the gate before it.
C18_LinearDepth15 ==
    (Returned /\ fn = "create_linear_w_state" /\ n = 8) =>
        /\ depth(result.qc, n) = 15
        /\ depth(result.qc, n) = 1 + 2 * 7

C18_Witness ==
    /\ Returned /\ fn = "create_linear_w_state" /\ n = 8
    /\ Len(result.qc) = 15
    /\ result.qc[15] = CXGate(6, 7)

\* ---------------------------------------------------------------- C19
\* C19: create_improved_balanced_w_state(n) for 1 <= n <= 4 and
\* create_balanced_w_state(n) for 1 <= n <= 3 return exactly the gate
\* sequence of create_linear_w_state(n).
C19_SmallIsLinear ==
    (/\ Returned
     /\ \/ fn = "create_improved_balanced_w_state" /\ n \in 1..4
        \/ fn = "create_balanced_w_state" /\ n \in 1..3)
    => /\ result.kind = "circuit"
       /\ result.qc = create_linear_w_state(n).qc
       /\ Len(result.qc) = IF n = 1 THEN 1 ELSE 2 * n - 1

C19_Witness ==
    /\ Returned /\ fn = "create_balanced_w_state" /\ n = 3
    /\ result.qc = <<XGate(0), RYGate(1, 3, 0), CXGate(0, 1),
                     RYGate(1, 2, 1), CXGate(1, 2)>>

\* ---------------------------------------------------------------- C20
\* the sum of the squared amplitudes vec[from..to] as a fraction, by halves
RECURSIVE SquaresSum(_, _, _)
SquaresSum(vec, from, to) ==
    IF from = to
    THEN [num |-> vec[from].sn, den |-> vec[from].sd]
    ELSE LET mid == (from + to) \div 2
             left == SquaresSum(vec, from, mid)
             right == SquaresSum(vec, mid + 1, to)
         IN [num |-> left.num * right.den + right.num * left.den,
             den |-> left.den * right.den]

\* C20: for n >= 1, create_ideal_w_state(n) returns a vector of length 2^n
\* whose non-zero entries are exactly the n entries at the indices 2^i,
\* i = 0..n-1, each the amplitude 1/sqrt(n); the squared amplitudes sum to 1.
C20_IdealVector ==
    (Returned /\ fn = "create_ideal_w_state" /\ n >= 1) =>
        LET vec == result.vec
            total == SquaresSum(vec, 0, 2^n - 1)
        IN /\ result.kind = "statevector"
           /\ DOMAIN vec = 0..(2^n - 1)
           /\ {b \in DOMAIN vec : vec[b].sn # 0} = {2^i : i \in 0..(n - 1)}
           /\ Cardinality({b \in DOMAIN vec : vec[b].sn # 0}) = n
           /\ \A b \in DOMAIN vec :
                 vec[b].sn # 0 => vec[b].sn * n = vec[b].sd
           /\ total.num = total.den

C20_Witness ==
    /\ Returned /\ fn = "create_ideal_w_state" /\ n = 3
    /\ DOMAIN result.vec = 0..7
    /\ result.vec[4] = [sn |-> 1, sd |-> 3]
    /\ result.vec[3].sn = 0

\* ---------------------------------------------------------------- C21
\* C21: in every construction and for every n >= 1 the call returns a
\* circuit (no error is raised), and each rotation of it was computed from
\* a remaining count of at least 1: the argument sn/sd of the square root
\* and of the arcsine has a non-zero denominator and lies in (0, 1].
C21_AnglesInDomain ==
    (/\ pc # "call" /\ n >= 1
     /\ fn \in {"create_linear_w_state", "create_balanced_w_state",
                "create_improved_balanced_w_state"})
    => /\ ~result.raised
       /\ \A j \in 1..Len(result.qc) :
             result.qc[j].name = "ry" =>
                /\ result.qc[j].sd >= 1
                /\ result.qc[j].sn >= 1
                /\ result.qc[j].sn <= result.qc[j].sd

C21_Witness ==
    /\ Returned /\ fn = "create_balanced_w_state" /\ n = 7
    /\ \E j \in 1..Len(result.qc) : result.qc[j] = RYGate(4, 7, 0)
    /\ \E j \in 1..Len(result.qc) : result.qc[j] = RYGate(1, 2, 4)

\* ---------------------------------------------------------------- C22
\* C22 as claimed: in the circuit create_linear_w_state(n) returns, n >= 2,
\* the rotation of the last pair (k = n-2) has the remaining count r = 1,
\* the angle 2*asin(sqrt(1/1)) = pi.
C22_LastPairFullTransfer ==
    (Returned /\ fn = "create_linear_w_state" /\ n >= 2) =>
        LET last == result.qc[Len(result.qc) - 1]
        IN /\ last.name = "ry" /\ last.qubits = <<n - 2>>
           /\ last.sn = 1 /\ last.sd = 1

\* C22, amended: in the circuit create_linear_w_state(n) returns, n >= 2,
\* the rotation of the last pair (k = n-2) has the remaining count r = 2,
\* the angle 2*asin(sqrt(1/2)) = pi/2; no rotation of the chain has r = 1.
C22_LastPairHalf ==
    (Returned /\ fn = "create_linear_w_state" /\ n >= 2) =>
        LET last == result.qc[Len(result.qc) - 1]
        IN /\ last.name = "ry" /\ last.qubits = <<n - 2>>
           /\ last.sn = 1 /\ last.sd = 2
           /\ result.qc[Len(result.qc)] = CXGate(n - 2, n - 1)
           /\ \A j \in 1..Len(result.qc) :
                 result.qc[j].name = "ry" => result.qc[j].sd >= 2

C22_Witness ==
    /\ Returned /\ fn = "create_linear_w_state" /\ n = 6
    /\ result.qc[10] = RYGate(1, 2, 4)
    /\ result.qc[11] = CXGate(4, 5)

\* ---------------------------------------------------------------- C23
\* the number of gates of a gate list with this name
CountOf(qc, name) == Cardinality({j \in 1..Len(qc) : qc[j].name = name})

\* C23: for n > 4 the circuit create_improved_balanced_w_state(n) returns
\* has a strictly smaller depth than the circuit create_linear_w_state(n)
\* returns, and as many cx gates and ry gates: n-1 of each in both.
C23_ShallowerSameGates ==
    (Returned /\ fn = "create_improved_balanced_w_state" /\ n > 4) =>
        LET linear == create_linear_w_state(n).qc
        IN /\ depth(result.qc, n) < depth(linear, n)
           /\ CountOf(result.qc, "cx") = n - 1
           /\ CountOf(result.qc, "ry") = n - 1
           /\ CountOf(linear, "cx") = n - 1
           /\ CountOf(linear, "ry") = n - 1

C23_Witness ==
    /\ Returned /\ fn = "create_improved_balanced_w_state" /\ n = 12
    /\ depth(result.qc, n) = 9
    /\ depth(create_linear_w_state(n).qc, n) = 23

\* ---------------------------------------------------------------- C27
\* C27: for every n >= 1, create_improved_balanced_w_state(n) returns; each
\* round of its while loop makes the list of active qubits strictly longer,
\* the safety break on "no progress" is never taken, and when the loop has
\* run the call returns with active_qubits = [0, 1, ..., n-1].
C27_Terminates ==
    /\ (n >= 1) => <>(pc = "returned")
    /\ [](pc # "break")
    /\ [][(pc = "while" /\ Len(active_qubits) < n)
             => Len(active_qubits') > Len(active_qubits)]_vars
    /\ []((pc = "returned" /\ n > 4)
             => active_qubits = [j \in 1..n |-> j - 1])

C27_Witness ==
    /\ pc = "returned" /\ n = 33
    /\ active_qubits = [j \in 1..33 |-> j - 1]
    /\ Len(layers) = 6
    /\ layers[6] = << <<0, 32>> >>

\* ---------------------------------------------------------------- C28
\* the qubits some gate of the gate list acts on
Touched(qc) == UNION { Range(qc[j].qubits) : j \in 1..Len(qc) }

\* C28: for every n >= 4 the circuit create_balanced_w_state(n) returns
\* applies at least one gate to each of its n qubits.
C28_EveryQubitTouched ==
    (Returned /\ fn = "create_balanced_w_state" /\ n >= 4) =>
        Touched(result.qc) = 0..(n - 1)

\* ---------------------------------------------------------------- C24
\* two instructions that cancel: the same x or h gate on the same qubits
SelfInversePair(a, b) == a.name = b.name /\ a.qubits = b.qubits /\ a.name \in {"x", "h"}

\* a sequence without its entries j and j + 1
Without(seq, j) == SubSeq(seq, 1, j - 1) \o SubSeq(seq, j + 2, Len(seq))

\* the sequence left when the leftmost adjacent cancelling pair is removed
\* again and again
RECURSIVE Reduced(_)
Reduced(seq) ==
    LET pairs == { j \in 1..(Len(seq) - 1) : SelfInversePair(seq[j], seq[j + 1]) }
    IN IF pairs = {} THEN seq ELSE Reduced(Without(seq, SetMin(pairs)))

\* the entries of a sequence that are not x or h gates, in order
RECURSIVE Others(_, _)
Others(seq, i) ==
    IF i > Len(seq)
    THEN <<>>
    ELSE IF seq[i].name \in {"x", "h"}
         THEN Others(seq, i + 1)
         ELSE <<seq[i]>> \o Others(seq, i + 1)

RECURSIVE Unruled(_, _, _)
Unruled(basis, seq, i) ==
    IF i > Len(seq)
    THEN <<>>
    ELSE IF seq[i].name \in basis \cup {"h", "ry", "rx"}
         THEN Unruled(basis, seq, i + 1)
         ELSE <<seq[i]>> \o Unruled(basis, seq, i + 1)

\* C25: _decompose_to_basis keeps every input instruction whose gate is not
\* in basis_gates and has no decomposition rule: these instructions are in
\* the output, unchanged and in their order, and none is lost.
C25_UnknownKept ==
    (tpc = "decomposed") =>
        Unruled(basis_gates, transpiled, 1) = Unruled(basis_gates, prev, 1)

\* ---------------------------------------------------------------- C29
\* C29: after _layout_and_route with a non-empty coupling map every
\* two-qubit instruction of the output, the gate that triggered the routing
\* included, acts on a pair of qubits that the coupling map connects.
C29_RoutedOnCoupledPairs ==
    (tpc = "routed" /\ coupling_map # {}) =>
        \A j \in 1..Len(transpiled) :
            Len(transpiled[j].qubits) = 2 =>
                are_connected(coupling_map, transpiled[j].qubits[1],
                              transpiled[j].qubits[2])

\* ---------------------------------------------------------------- C30
\* C30: every instruction of the circuit transpile returns has a gate name
\* in basis_gates, and the steps after the decomposition introduce no gate
\* name the decomposed circuit did not have.
C30_OnlyBasisGates ==
    /\ (tpc = "returned") =>
           \A j \in 1..Len(transpiled) : transpiled[j].name \in basis_gates
    /\ (tpc \in {"routed", "returned"}) =>
           { transpiled[j].name : j \in 1..Len(transpiled) }
               \subseteq { prev[j].name : j \in 1..Len(prev) }

\* ---------------------------------------------------------------- C26
\* the qubits at most k coupled steps away from the start qubit
RECURSIVE WithinSteps(_)
WithinSteps(k) ==
    IF k = 0
    THEN {start}
    ELSE LET near == WithinSteps(k - 1)
         IN near \cup { q \in 0..(NumQubits - 1) :
                          \E b \in near : are_connected(coupling_map, b, q) }

\* the least number of coupled steps from start to end, when there is one
Distance == SetMin({ k \in 0..NumQubits : end \in WithinSteps(k) })

\* C26: _find_shortest_path(start, end) returns on every coupling graph; it
\* returns [start] when start = end, a path from start to end over coupled
\* qubits with the least possible number of steps when end can be reached,
\* and [start, end] when it cannot.
C26_ShortestPath ==
    /\ <>(tpc = "path_returned")
    /\ [](tpc = "path_returned" =>
            IF start = end
            THEN path = <<start>>
            ELSE IF end \in WithinSteps(NumQubits)
            THEN /\ path[1] = start
                 /\ path[Len(path)] = end
                 /\ \A j \in 1..(Len(path) - 1) :
                        are_connected(coupling_map, path[j], path[j + 1])
                 /\ Len(path) - 1 = Distance
            ELSE path = <<start, end>>)

\* a path over three couplings was returned although end was also reachable
\* the other way round a ring
C26_Witness ==
    /\ tpc = "path_returned"
    /\ coupling_map = {<<0, 1>>, <<1, 2>>, <<2, 3>>, <<0, 3>>}
    /\ start = 0 /\ end = 2
    /\ Len(path) = 3

====
